---- MODULE Spec2Model ----
(***************************************************************************)
(* Order ingestion service: the Kafka consumer loop (Consumer.Run), the    *)
(* transactional batch persistence (orderService.SaveBatch) and the        *)
(* in-memory order cache (OrderCache) with its start-up hydration          *)
(* (LoadFromDB), as wired together by main.                                *)
(***************************************************************************)
EXTENDS Integers, Sequences, FiniteSets, TLC

\* ------------------------------------------------------------------ bounds
\* Number of stream messages delivered over the life of the model.
MaxMsgs == 2
\* Largest batch threshold a build is configured with (the source sets 1).
MaxBatch == 2
\* Number of process restarts (a fresh cache against the same store).
MaxRestarts == 1
\* Number of direct calls of the order service (SaveOrder, SaveBatch).
MaxCalls == 2

\* consumer.go: const batchSize = 1
batchSize == 1

\* ------------------------------------------------------------ order values
\* time.Time values: 0 is the zero time (IsZero), the others are instants.
\* An instant that is not a multiple of the store's resolution carries a
\* sub-resolution part (nanoseconds below the store's microsecond).
ZeroTime == 0
NowValues == {4, 5}

\* model.Order as the service uses it: header fields (uid, track, date),
\* the Delivery, the Payment and the Items.
MkOrder(uid, track, name, phone, items, date) ==
    [uid |-> uid, track |-> track, date |-> date,
     delivery |-> [name |-> name, phone |-> phone],
     payment |-> [amount |-> 10 * track],
     items |-> items]

\* A nil *model.Order, and the address that stands for it in a batch.
Nil == <<>>
NilRef == 0

\* Orders the stream can carry: valid ones (two contents for uid "a", one
\* for uid "b") and one order for each way of failing validation.
ValidPayloads ==
    { MkOrder("a", 1, "n", "p", <<1>>, ZeroTime),
      MkOrder("a", 2, "n", "p", <<1, 2>>, 2),
      MkOrder("b", 1, "n", "p", <<2>>, ZeroTime) }

InvalidPayloads ==
    { MkOrder("", 1, "n", "p", <<1>>, 2),
      MkOrder("a", 3, "n", "p", <<>>, 2),
      MkOrder("b", 3, "", "p", <<1>>, ZeroTime),
      MkOrder("b", 4, "n", "", <<1>>, 2) }

Payloads == ValidPayloads \cup InvalidPayloads

UIDs == {o.uid : o \in Payloads}

\* A stream message: a payload that json.Unmarshal rejects, or one that
\* decodes to an order.
Messages == {[ok |-> FALSE]} \cup {[ok |-> TRUE, order |-> o] : o \in Payloads}

\* ------------------------------------------------------------------- state
VARIABLES
    threshold,   \* the batch threshold this build compares len(orders) with
    pc,          \* position of the process: main, Consumer.Run, SaveBatch
    heap,        \* the model.Order objects allocated so far (by address)
    cache,       \* OrderCache.cache: order_uid -> address of an Order
    orders,      \* Run's batch buffer: addresses of decoded orders
    cur,         \* address of Run's local `order` of this iteration
    nread,       \* messages read from the stream so far
    idx,         \* SaveBatch's position in its range over the batch
    tx,          \* rows written by the open transaction, not yet committed
    saveErr,     \* the error SaveBatch returned (TRUE = non-nil)
    store,       \* committed rows of the four tables
    cancelled,   \* the shared context has been cancelled
    toLoad,      \* LoadFromDB: order_uids enumerated and not yet loaded
    restarts,    \* restarts so far
    http,        \* the HTTP server: "off", "serving" or "stopped"
    mu,          \* OrderCache.mu: the writer holding it, the readers holding it
    th,          \* the callers of the cache: position, argument, result
    hist         \* history of calls and their outcomes (not program state)

vars == <<threshold, pc, heap, cache, orders, cur, nread, idx, tx, saveErr,
          store, cancelled, toLoad, restarts, http, mu, th, hist>>

\* ----------------------------------------------------------------- helpers
EmptyFn == [x \in {} |-> 0]

Put(f, k, v) == [x \in DOMAIN f \cup {k} |-> IF x = k THEN v ELSE f[x]]

Range(s) == {s[i] : i \in DOMAIN s}

EmptyRows == [orders |-> EmptyFn, deliveries |-> EmptyFn,
              payments |-> EmptyFn, items |-> EmptyFn]

\* The tables as a transaction sees them: committed rows plus its own.
Overlay(st, rows) ==
    [t \in DOMAIN st |->
        [u \in DOMAIN st[t] \cup DOMAIN rows[t] |->
            IF u \in DOMAIN rows[t] THEN rows[t][u] ELSE st[t][u]]]

\* --------------------------------------------------------- durable store
\* The orders.date_created column keeps instants at the store's resolution:
\* a time.Time written through the driver comes back without its part below
\* that resolution.
DbTimestamp(t) == (t \div 2) * 2

\* orders.order_uid is the primary key: a second header row for a stored
\* order_uid is a constraint violation.
DuplicateKey(visible, uid) == uid \in DOMAIN visible.orders

\* validateOrder without its check of the items.
validateOrderNoItemsCheck(o) ==
    /\ o # Nil
    /\ o.uid # ""
    /\ ~(o.delivery.name = "" \/ o.delivery.phone = "")

\* validateOrder without its check of Delivery.Phone.
validateOrderNoPhoneCheck(o) ==
    /\ o # Nil
    /\ o.uid # ""
    /\ Len(o.items) # 0
    /\ o.delivery.name # ""

\* service: validateOrder, TRUE when it returns nil (Run never hands it a
\* nil reference: it appends &order).
validateOrder(o) ==
    /\ o # Nil
    /\ o.uid # ""
    /\ Len(o.items) # 0
    /\ ~(o.delivery.name = "" \/ o.delivery.phone = "")

\* service: ordersRepoInsertTx, deliveriesRepoInsertTx, paymentsRepoInsertTx
\* and itemsRepoInsertTx (one Exec per item), as rows added to the
\* transaction.
ordersRepoInsertTx(rows, o) ==
    [rows EXCEPT !.orders =
        Put(@, o.uid, [uid |-> o.uid, track |-> o.track,
                       date |-> DbTimestamp(o.date)])]

deliveriesRepoInsertTx(rows, o) ==
    [rows EXCEPT !.deliveries = Put(@, o.uid, o.delivery)]

paymentsRepoInsertTx(rows, o) ==
    [rows EXCEPT !.payments = Put(@, o.uid, o.payment)]

itemsRepoInsertTx(rows, o, n) ==
    [rows EXCEPT !.items =
        Put(@, o.uid, (IF o.uid \in DOMAIN @ THEN @[o.uid] ELSE <<>>)
                         \o SubSeq(o.items, 1, n))]

\* Number of Exec calls insertOrderData issues for an order.
ExecCount(o) == 3 + Len(o.items)

\* insertOrderData writing the delivery row before the header.
insertOrderDataDeliveryFirst(rows, o, n) ==
    LET r1 == IF n >= 1 THEN deliveriesRepoInsertTx(rows, o) ELSE rows
        r2 == IF n >= 2 THEN ordersRepoInsertTx(r1, o) ELSE r1
        r3 == IF n >= 3 THEN paymentsRepoInsertTx(r2, o) ELSE r2
    IN  IF n > 3 THEN itemsRepoInsertTx(r3, o, n - 3) ELSE r3

\* service: insertOrderData, stopped after its first n Exec calls succeeded
\* (n = ExecCount(o) when none fails): header, delivery, payment, items.
insertOrderData(rows, o, n) ==
    LET r1 == IF n >= 1 THEN ordersRepoInsertTx(rows, o) ELSE rows
        r2 == IF n >= 2 THEN deliveriesRepoInsertTx(r1, o) ELSE r1
        r3 == IF n >= 3 THEN paymentsRepoInsertTx(r2, o) ELSE r2
    IN  IF n > 3 THEN itemsRepoInsertTx(r3, o, n - 3) ELSE r3

\* pgx: tx.Commit makes the transaction's rows visible, tx.Rollback drops
\* them.
CommitDropsRows(st, rows) == st

Commit(st, rows) == Overlay(st, rows)

\* A rollback that keeps the rows inserted before the failure.
RollbackKeepsRows(st, rows) == Overlay(st, rows)

Rollback(st, rows) == st

\* service: GetOrderByID. Four reads; a missing header, delivery or payment
\* row is pgx.ErrNoRows, an order without item rows comes back with no items.
GetOrderByID(st, uid) ==
    IF uid \in DOMAIN st.orders /\ uid \in DOMAIN st.deliveries
       /\ uid \in DOMAIN st.payments
    THEN << [uid |-> st.orders[uid].uid, track |-> st.orders[uid].track,
             date |-> st.orders[uid].date,
             delivery |-> st.deliveries[uid],
             payment |-> st.payments[uid],
             items |-> IF uid \in DOMAIN st.items THEN st.items[uid]
                       ELSE <<>>] >>
    ELSE <<>>

\* The reads of GetOrderByID, in the order it makes them; one of them may
\* fail with a database error ("none": no read fails).
Reads == <<"orders", "deliveries", "payments", "items">>
ReadFailures == Range(Reads) \cup {"none"}

\* GetOrderByID going on without the items when their read fails.
GetOrderByIDErrIgnoresItems(st, uid, broken) ==
    IF broken = "orders" THEN "failed"
    ELSE IF uid \notin DOMAIN st.orders THEN "no_rows"
    ELSE IF broken = "deliveries" THEN "failed"
    ELSE IF uid \notin DOMAIN st.deliveries THEN "no_rows"
    ELSE IF broken = "payments" THEN "failed"
    ELSE IF uid \notin DOMAIN st.payments THEN "no_rows"
    ELSE "none"

\* service: the error GetOrderByID returns. Each read returns its error to
\* the caller unchanged: the database error of a failed read, or the
\* no-rows error of a header, delivery or payment read that finds no row;
\* the items read finds any number of rows.
GetOrderByIDErr(st, uid, broken) ==
    IF broken = "orders" THEN "failed"
    ELSE IF uid \notin DOMAIN st.orders THEN "no_rows"
    ELSE IF broken = "deliveries" THEN "failed"
    ELSE IF uid \notin DOMAIN st.deliveries THEN "no_rows"
    ELSE IF broken = "payments" THEN "failed"
    ELSE IF uid \notin DOMAIN st.payments THEN "no_rows"
    ELSE IF broken = "items" THEN "failed"
    ELSE "none"

\* cache: loadFullOrder, the same four reads through the repositories.
loadFullOrder(st, uid) ==
    IF uid \in DOMAIN st.orders /\ uid \in DOMAIN st.deliveries
       /\ uid \in DOMAIN st.payments
    THEN << [uid |-> st.orders[uid].uid, track |-> st.orders[uid].track,
             date |-> st.orders[uid].date,
             delivery |-> st.deliveries[uid],
             payment |-> st.payments[uid],
             items |-> IF uid \in DOMAIN st.items THEN st.items[uid]
                       ELSE <<>>] >>
    ELSE <<>>

\* ------------------------------------------------------------------ cache
\* getAllOrderUIDs with a row dropped from a non-empty result.
getAllOrderUIDsDropsOne(st) ==
    IF DOMAIN st.orders = {} THEN {}
    ELSE DOMAIN st.orders \ {CHOOSE u \in DOMAIN st.orders : TRUE}

\* cache: getAllOrderUIDs, SELECT order_uid FROM orders.
getAllOrderUIDs(st) == DOMAIN st.orders

\* cache: Get. <<>> is the nil result, <<o>> the order the entry points to.
Get(uid) == IF uid \in DOMAIN cache THEN <<heap[cache[uid]]>> ELSE <<>>

\* cache: GetAll, the orders of all entries.
GetAll == {heap[cache[u]] : u \in DOMAIN cache}

\* A Set that drops the other entries of the map.
SetReplacesMap(c, addr) == Put(EmptyFn, heap[addr].uid, addr)

\* A Set that leaves an entry that is already present as it is.
SetKeepsExisting(c, addr) ==
    IF heap[addr].uid \in DOMAIN c THEN c ELSE Put(c, heap[addr].uid, addr)

\* A Set that keys the entry by another string field of the order.
SetKeyedByName(c, addr) == Put(c, heap[addr].delivery.name, addr)

\* cache: Set, c.cache[order.OrderUID] = order.
Set(c, addr) == Put(c, heap[addr].uid, addr)

\* sync.RWMutex: no writer and no reader holds it.
NoWriter == "none"
FreeLock == [w |-> NoWriter, r |-> {}]

\* The goroutines that call the cache while main hydrates it: two request
\* handlers (Get, GetAll) and Consumer.Run (Set).
Readers == {"h1", "h2"}
Setter == "run"
Loader == "main"
Idle == [pc |-> "idle", arg |-> 0, res |-> <<>>, snap |-> {},
         got |-> <<>>, resp |-> <<>>]
IdleCallers == [c \in Readers \cup {Setter} |-> Idle]

\* ------------------------------------------------------------------- init
\* The store a process finds when it starts: empty, or holding an order a
\* previous run of the service persisted.
SeedOrder == MkOrder("a", 1, "n", "p", <<1>>, 4)

InitialStores ==
    { EmptyRows,
      Commit(EmptyRows,
             insertOrderData(EmptyRows, SeedOrder, ExecCount(SeedOrder))) }

\* The history of a process that has done nothing yet.
NoHistory ==
    [decoded |-> {}, setByRun |-> {}, savedOk |-> {}, failed |-> {},
     committed |-> {}, inserted |-> {}, durable |-> {},
     atBegin |-> EmptyRows, lastSet |-> EmptyFn, everStored |-> {},
     preGet |-> [u \in UIDs |-> <<>>], skipped |-> {}, loadErr |-> FALSE,
     failure |-> "none", failCancelled |-> FALSE,
     readCalled |-> FALSE, readFailed |-> FALSE, bad |-> 0,
     api |-> "none", calls |-> 0, rejected |-> {}, partial |-> EmptyRows,
     bare |-> {},
     got |-> [uid |-> "", broken |-> "none", err |-> "none", order |-> <<>>],
     began |-> FALSE, closes |-> <<>>, exit |-> "none"]

\* main with srv.Start moved before LoadFromDB.
InitServing ==
    /\ threshold \in batchSize..MaxBatch
    /\ pc = "load"
    /\ heap = <<>>
    /\ cache = EmptyFn
    /\ orders = <<>>
    /\ cur = 0
    /\ nread = 0
    /\ idx = 0
    /\ tx = EmptyRows
    /\ saveErr = FALSE
    /\ store \in InitialStores
    /\ cancelled = FALSE
    /\ toLoad = {}
    /\ restarts = 0
    /\ http = "serving"
    /\ mu = FreeLock
    /\ th = IdleCallers
    /\ hist = NoHistory

\* main up to NewOrderCache: an empty cache, nothing read.
Init ==
    /\ threshold \in batchSize..MaxBatch
    /\ pc = "load"
    /\ heap = <<>>
    /\ cache = EmptyFn
    /\ orders = <<>>
    /\ cur = 0
    /\ nread = 0
    /\ idx = 0
    /\ tx = EmptyRows
    /\ saveErr = FALSE
    /\ store \in InitialStores
    /\ cancelled = FALSE
    /\ toLoad = {}
    /\ restarts = 0
    /\ http = "off"
    /\ mu = FreeLock
    /\ th = IdleCallers
    /\ hist = NoHistory

\* ------------------------------------------------------------- LoadFromDB
\* main ending the process when LoadFromDB returns an error.
LoadFromDBEnumerateFailIsFatal ==
    /\ pc = "load"
    /\ pc' = "stopped"
    /\ hist' = [hist EXCEPT !.loadErr = TRUE]
    /\ UNCHANGED <<mu, th, http, threshold, heap, cache, orders, cur, nread, idx, tx,
                   saveErr, store, cancelled, toLoad, restarts>>

\* cache: LoadFromDB, getAllOrderUIDs fails: the error is returned, main
\* logs it and goes on.
LoadFromDBEnumerateFail ==
    /\ pc = "load"
    /\ pc' = "loaded"
    /\ hist' = [hist EXCEPT !.loadErr = TRUE]
    /\ UNCHANGED <<mu, th, http, threshold, heap, cache, orders, cur, nread, idx, tx,
                   saveErr, store, cancelled, toLoad, restarts>>

\* cache: LoadFromDB, getAllOrderUIDs returns the order_uids of orders.
LoadFromDBEnumerate ==
    /\ pc = "load"
    /\ toLoad' = getAllOrderUIDs(store)
    /\ pc' = "loading"
    /\ UNCHANGED <<mu, th, http, threshold, heap, cache, orders, cur, nread, idx, tx,
                   saveErr, store, cancelled, restarts, hist>>

\* cache: LoadFromDB, one iteration whose loadFullOrder succeeds: a new
\* Order object is inserted under the enumerated uid.
LoadFromDBInsert ==
    /\ pc = "loading"
    /\ \E u \in toLoad :
        /\ loadFullOrder(store, u) # <<>>
        /\ heap' = Append(heap, loadFullOrder(store, u)[1])
        /\ cache' = Put(cache, u, Len(heap) + 1)
        /\ toLoad' = toLoad \ {u}
        /\ hist' = [hist EXCEPT !.everStored = @ \cup {u},
                                !.durable = @ \cup {Len(heap) + 1}]
    /\ UNCHANGED <<mu, th, http, threshold, pc, orders, cur, nread, idx, tx, saveErr,
                   store, cancelled, restarts>>

\* LoadFromDB returning at the first uid whose loadFullOrder fails.
LoadFromDBSkipAborts ==
    /\ pc = "loading"
    /\ \E u \in toLoad :
        /\ toLoad' = {}
        /\ hist' = [hist EXCEPT !.skipped = @ \cup {u}, !.loadErr = TRUE]
    /\ pc' = "loaded"
    /\ UNCHANGED <<mu, th, http, threshold, heap, cache, orders, cur, nread, idx, tx,
                   saveErr, store, cancelled, restarts>>

\* cache: LoadFromDB, one iteration whose loadFullOrder returns an error (a
\* failed read or a missing row): the uid is skipped.
LoadFromDBSkip ==
    /\ pc = "loading"
    /\ \E u \in toLoad :
        /\ toLoad' = toLoad \ {u}
        /\ hist' = [hist EXCEPT !.skipped = @ \cup {u}]
    /\ UNCHANGED <<mu, th, http, threshold, pc, heap, cache, orders, cur, nread, idx, tx,
                   saveErr, store, cancelled, restarts>>

\* cache: LoadFromDB logs len(c.cache), read with no lock taken, and
\* returns nil after its loop.
LoadFromDBReturn ==
    /\ pc = "loading"
    /\ toLoad = {}
    /\ pc' = "loaded"
    /\ hist' = [hist EXCEPT !.bare =
                   IF mu.w = Loader \/ Loader \in mu.r THEN @
                   ELSE @ \cup {"LoadFromDB"}]
    /\ UNCHANGED <<mu, th, http, threshold, heap, cache, orders, cur, nread, idx, tx,
                   saveErr, store, cancelled, toLoad, restarts>>

\* main: after LoadFromDB has returned, the consumer goroutine is started and
\* srv.Start begins to serve.
StartConsumer ==
    /\ pc = "loaded"
    /\ pc' = "read"
    /\ http' = "serving"
    /\ UNCHANGED <<mu, th, threshold, heap, cache, orders, cur, nread, idx, tx,
                   saveErr, store, cancelled, toLoad, restarts, hist>>

\* ----------------------------------------------------------- Consumer.Run
\* The zero value of model.Order.
ZeroOrder == MkOrder("", 0, "", "", <<>>, ZeroTime)

\* A decode whose error is ignored: the zero-valued order is processed.
DecodeIgnoresError(m) == IF m.ok THEN <<m.order>> ELSE <<ZeroOrder>>

\* json.Unmarshal of a message value.
Decode(m) == IF m.ok THEN <<m.order>> ELSE <<>>

\* Run handing its buffered orders to SaveBatch when ReadMessage fails.
ReadErrorFlushes ==
    /\ pc = "read"
    /\ pc' = IF orders # <<>> THEN "begin" ELSE "stopped"
    /\ hist' = [hist EXCEPT !.readCalled = TRUE,
                            !.readFailed = (orders = <<>>)]
    /\ UNCHANGED <<mu, th, http, threshold, heap, cache, orders, cur, nread, idx, tx,
                   saveErr, store, cancelled, toLoad, restarts>>

\* Run logging the error of ReadMessage and reading again.
ReadErrorContinues ==
    /\ pc = "read"
    /\ hist' = [hist EXCEPT !.readCalled = TRUE, !.readFailed = TRUE]
    /\ UNCHANGED <<mu, th, http, threshold, pc, heap, cache, orders, cur, nread, idx,
                   tx, saveErr, store, cancelled, toLoad, restarts>>

\* Run: ReadMessage returns an error (a broker failure, or the cancelled
\* context) and Run returns it.
ReadError ==
    /\ pc = "read"
    /\ pc' = "stopped"
    /\ hist' = [hist EXCEPT !.readCalled = TRUE, !.readFailed = TRUE]
    /\ UNCHANGED <<mu, th, http, threshold, heap, cache, orders, cur, nread, idx, tx,
                   saveErr, store, cancelled, toLoad, restarts>>

\* Run reading the next message while the order of the last one is still
\* to be put in the cache.
ReadMessagePipelined ==
    /\ pc \in {"read", "set"}
    /\ ~cancelled
    /\ nread < MaxMsgs
    /\ nread' = nread + 1
    /\ \E m \in Messages :
        IF Decode(m) = <<>>
        THEN /\ hist' = [hist EXCEPT !.readCalled = TRUE, !.bad = @ + 1]
             /\ UNCHANGED <<pc, heap, orders, cur>>
        ELSE /\ heap' = Append(heap, Decode(m)[1])
             /\ cur' = Len(heap) + 1
             /\ orders' = Append(orders, Len(heap) + 1)
             /\ pc' = IF Len(orders) + 1 >= threshold THEN "begin" ELSE "set"
             /\ hist' = [hist EXCEPT
                           !.readCalled = TRUE,
                           !.bad = IF m.ok THEN @ ELSE @ + 1,
                           !.decoded = @ \cup {Len(heap) + 1}]
    /\ UNCHANGED <<mu, th, http, threshold, cache, idx, tx, saveErr, store, cancelled,
                   toLoad, restarts>>

\* Run: a message is read; a decode failure continues with the next
\* message, a decoded order is appended to the batch, which is handed to
\* SaveBatch when it has reached the threshold.
ReadMessage ==
    /\ pc = "read"
    /\ ~cancelled
    /\ nread < MaxMsgs
    /\ nread' = nread + 1
    /\ \E m \in Messages :
        IF Decode(m) = <<>>
        THEN /\ hist' = [hist EXCEPT !.readCalled = TRUE, !.bad = @ + 1]
             /\ UNCHANGED <<pc, heap, orders, cur>>
        ELSE /\ heap' = Append(heap, Decode(m)[1])
             /\ cur' = Len(heap) + 1
             /\ orders' = Append(orders, Len(heap) + 1)
             /\ pc' = IF Len(orders) + 1 >= threshold THEN "begin" ELSE "set"
             /\ hist' = [hist EXCEPT
                           !.readCalled = TRUE,
                           !.bad = IF m.ok THEN @ ELSE @ + 1,
                           !.decoded = @ \cup {Len(heap) + 1}]
    /\ UNCHANGED <<mu, th, http, threshold, cache, idx, tx, saveErr, store, cancelled,
                   toLoad, restarts>>

\* SaveBatch: db.Begin fails (always under a cancelled context).
SaveBatchBeginFail ==
    /\ pc = "begin"
    /\ saveErr' = TRUE
    /\ pc' = "ret"
    /\ hist' = [hist EXCEPT !.failed = @ \cup Range(orders),
                            !.atBegin = store,
                            !.failure = "begin",
                            !.failCancelled = cancelled]
    /\ UNCHANGED <<mu, th, http, threshold, heap, cache, orders, cur, nread, idx, tx,
                   store, cancelled, toLoad, restarts>>

\* SaveBatch: db.Begin opens the transaction.
SaveBatchBegin ==
    /\ pc = "begin"
    /\ ~cancelled
    /\ tx' = EmptyRows
    /\ idx' = 1
    /\ pc' = "insert"
    /\ hist' = [hist EXCEPT !.atBegin = store, !.began = TRUE]
    /\ UNCHANGED <<mu, th, http, threshold, heap, cache, orders, cur, nread, saveErr,
                   store, cancelled, toLoad, restarts>>

\* SaveBatch returning the validation error of an invalid order.
SaveBatchSkipInvalidAborts ==
    /\ pc = "insert"
    /\ idx <= Len(orders)
    /\ orders[idx] # NilRef
    /\ ~validateOrder(heap[orders[idx]])
    /\ store' = Rollback(store, tx)
    /\ tx' = EmptyRows
    /\ saveErr' = TRUE
    /\ pc' = "ret"
    /\ hist' = [hist EXCEPT !.rejected = @ \cup {orders[idx]},
                            !.closes = <<"rollback">>]
    /\ UNCHANGED <<mu, th, http, threshold, heap, cache, orders, cur, nread, idx,
                   cancelled, toLoad, restarts>>

\* SaveBatch: an order that fails validateOrder is logged and skipped.
SaveBatchSkipInvalid ==
    /\ pc = "insert"
    /\ idx <= Len(orders)
    /\ orders[idx] # NilRef
    /\ ~validateOrder(heap[orders[idx]])
    /\ idx' = idx + 1
    /\ hist' = [hist EXCEPT !.rejected = @ \cup {orders[idx]}]
    /\ UNCHANGED <<mu, th, http, threshold, pc, heap, cache, orders, cur, nread, tx,
                   saveErr, store, cancelled, toLoad, restarts>>

\* SaveBatch stamping every order it inserts with the current time.
DateCreatedAlwaysNow(o, now) == now

\* SaveBatch: the value DateCreated has after the IsZero check.
DateCreatedAt(o, now) == IF o.date = ZeroTime THEN now ELSE o.date

\* SaveBatch: a valid order gets its DateCreated and all its rows.
SaveBatchInsert ==
    /\ pc = "insert"
    /\ idx <= Len(orders)
    /\ orders[idx] # NilRef
    /\ validateOrder(heap[orders[idx]])
    /\ ~cancelled
    /\ \E now \in NowValues :
        LET a == orders[idx]
            o == [heap[a] EXCEPT !.date = DateCreatedAt(heap[a], now)]
        IN  /\ ~DuplicateKey(Overlay(store, tx), o.uid)
            /\ heap' = [heap EXCEPT ![a] = o]
            /\ tx' = insertOrderData(tx, o, ExecCount(o))
            /\ hist' = [hist EXCEPT !.inserted = @ \cup {a}]
    /\ idx' = idx + 1
    /\ UNCHANGED <<mu, th, http, threshold, pc, cache, orders, cur, nread, saveErr, store,
                   cancelled, toLoad, restarts>>

\* SaveBatch: one of the Exec calls of insertOrderData fails after n of them
\* succeeded (the first one always fails under a cancelled context or on a
\* stored order_uid); the deferred function rolls the transaction back and
\* the error is returned.
SaveBatchInsertFail ==
    /\ pc = "insert"
    /\ idx <= Len(orders)
    /\ orders[idx] # NilRef
    /\ validateOrder(heap[orders[idx]])
    /\ \E now \in NowValues :
        LET a == orders[idx]
            o == [heap[a] EXCEPT !.date = DateCreatedAt(heap[a], now)]
        IN  \E n \in 0..(ExecCount(o) - 1) :
              /\ (cancelled \/ DuplicateKey(Overlay(store, tx), o.uid))
                    => n = 0
              /\ heap' = [heap EXCEPT ![a] = o]
              /\ store' = Rollback(store, insertOrderData(tx, o, n))
              /\ hist' = [hist EXCEPT !.inserted = @ \cup {a},
                                      !.failed = @ \cup Range(orders),
                                      !.failure = "insert",
                                      !.failCancelled = cancelled,
                                      !.partial = insertOrderData(tx, o, n),
                                      !.closes = <<"rollback">>]
    /\ tx' = EmptyRows
    /\ saveErr' = TRUE
    /\ pc' = "ret"
    /\ UNCHANGED <<mu, th, http, threshold, cache, orders, cur, nread, idx, cancelled,
                   toLoad, restarts>>

\* SaveBatch: tx.Commit succeeds and nil is returned; the deferred function
\* finds no error and issues nothing.
SaveBatchCommit ==
    /\ pc = "insert"
    /\ idx > Len(orders)
    /\ ~cancelled
    /\ store' = Commit(store, tx)
    /\ tx' = EmptyRows
    /\ saveErr' = FALSE
    /\ pc' = "ret"
    /\ hist' = [hist EXCEPT
                  !.failure = "none",
                  !.closes = <<"commit">>,
                  !.savedOk = @ \cup Range(orders),
                  !.committed = @ \cup Range(orders),
                  !.durable = @ \cup {a \in Range(orders) :
                                         validateOrder(heap[a])}]
    /\ UNCHANGED <<mu, th, http, threshold, heap, cache, orders, cur, nread, idx,
                   cancelled, toLoad, restarts>>

\* SaveBatch logging a failed Commit and returning nil.
SaveBatchCommitFailSwallowed ==
    /\ pc = "insert"
    /\ idx > Len(orders)
    /\ store' = Rollback(store, tx)
    /\ tx' = EmptyRows
    /\ saveErr' = FALSE
    /\ pc' = "ret"
    /\ hist' = [hist EXCEPT !.failed = @ \cup Range(orders),
                            !.failure = "commit",
                            !.closes = <<"commit", "rollback">>,
                            !.failCancelled = cancelled]
    /\ UNCHANGED <<mu, th, http, threshold, heap, cache, orders, cur, nread, idx,
                   cancelled, toLoad, restarts>>

\* SaveBatch: tx.Commit fails (always under a cancelled context); the
\* deferred function finds the error and issues tx.Rollback as well, and the
\* error is returned.
SaveBatchCommitFail ==
    /\ pc = "insert"
    /\ idx > Len(orders)
    /\ store' = Rollback(store, tx)
    /\ tx' = EmptyRows
    /\ saveErr' = TRUE
    /\ pc' = "ret"
    /\ hist' = [hist EXCEPT !.failed = @ \cup Range(orders),
                            !.failure = "commit",
                            !.closes = <<"commit", "rollback">>,
                            !.failCancelled = cancelled]
    /\ UNCHANGED <<mu, th, http, threshold, heap, cache, orders, cur, nread, idx,
                   cancelled, toLoad, restarts>>

\* Run returning the error of SaveBatch.
RunAfterSaveReturnsError ==
    /\ pc = "ret"
    /\ orders' = <<>>
    /\ pc' = IF saveErr THEN "stopped" ELSE "set"
    /\ idx' = 0
    /\ saveErr' = FALSE
    /\ hist' = [hist EXCEPT !.atBegin = EmptyRows, !.failure = "none",
                            !.failCancelled = FALSE, !.rejected = {},
                            !.partial = EmptyRows, !.began = FALSE,
                            !.closes = <<>>]
    /\ UNCHANGED <<mu, th, http, threshold, heap, cache, cur, nread, tx, store,
                   cancelled, toLoad, restarts>>

\* Run keeping the batch buffer for another attempt when SaveBatch failed.
RunAfterSaveKeepsFailed ==
    /\ pc = "ret"
    /\ orders' = IF saveErr THEN orders ELSE <<>>
    /\ pc' = "set"
    /\ idx' = 0
    /\ saveErr' = FALSE
    /\ hist' = [hist EXCEPT !.atBegin = EmptyRows, !.failure = "none",
                            !.failCancelled = FALSE, !.rejected = {},
                            !.partial = EmptyRows, !.began = FALSE,
                            !.closes = <<>>]
    /\ UNCHANGED <<mu, th, http, threshold, heap, cache, cur, nread, tx, store,
                   cancelled, toLoad, restarts>>

\* Run going to the next message, without the cache Set, when SaveBatch
\* returned an error.
RunAfterSaveSkipsSetOnError ==
    /\ pc = "ret"
    /\ orders' = <<>>
    /\ pc' = IF saveErr THEN "read" ELSE "set"
    /\ cur' = IF saveErr THEN 0 ELSE cur
    /\ idx' = 0
    /\ saveErr' = FALSE
    /\ hist' = [hist EXCEPT !.atBegin = EmptyRows, !.failure = "none",
                            !.failCancelled = FALSE, !.rejected = {},
                            !.partial = EmptyRows, !.began = FALSE,
                            !.closes = <<>>]
    /\ UNCHANGED <<mu, th, http, threshold, heap, cache, nread, tx, store,
                   cancelled, toLoad, restarts>>

\* Run: SaveBatch has returned; its error is logged and the batch buffer is
\* cleared. The call's locals and the error are out of scope from here on.
RunAfterSave ==
    /\ pc = "ret"
    /\ orders' = <<>>
    /\ pc' = "set"
    /\ idx' = 0
    /\ saveErr' = FALSE
    /\ hist' = [hist EXCEPT !.atBegin = EmptyRows, !.failure = "none",
                            !.failCancelled = FALSE, !.rejected = {},
                            !.partial = EmptyRows, !.began = FALSE,
                            !.closes = <<>>]
    /\ UNCHANGED <<mu, th, http, threshold, heap, cache, cur, nread, tx, store, cancelled,
                   toLoad, restarts>>

\* Run: c.orderCache.Set(&order), reached on every iteration that decoded
\* an order, then the next iteration.
RunCacheSet ==
    /\ pc = "set"
    /\ cache' = Set(cache, cur)
    /\ cur' = 0
    /\ pc' = "read"
    /\ hist' = [hist EXCEPT
                  !.setByRun = @ \cup {cur},
                  !.lastSet = Put(@, heap[cur].uid, cur),
                  !.everStored = @ \cup {heap[cur].uid}]
    /\ UNCHANGED <<mu, th, http, threshold, heap, orders, nread, idx, tx, saveErr,
                   store, cancelled, toLoad, restarts>>

\* main: a signal (or a consumer error) cancels the shared context.
Cancel ==
    /\ ~cancelled
    /\ pc # "load" /\ pc # "loading"
    /\ cancelled' = TRUE
    /\ UNCHANGED <<mu, th, http, threshold, pc, heap, cache, orders, cur, nread, idx, tx,
                   saveErr, store, toLoad, restarts, hist>>

\* The process ends and is started again: a new address space with a new
\* empty cache and a new Run against the same store. The history starts
\* anew and keeps what Get returned in the process that ended.
Restart ==
    /\ restarts < MaxRestarts
    /\ pc \in {"read", "stopped"}
    /\ restarts' = restarts + 1
    /\ pc' = "load"
    /\ cache' = EmptyFn
    /\ orders' = <<>>
    /\ cur' = 0
    /\ idx' = 0
    /\ tx' = EmptyRows
    /\ saveErr' = FALSE
    /\ cancelled' = FALSE
    /\ toLoad' = {}
    /\ heap' = <<>>
    /\ hist' = [NoHistory EXCEPT !.preGet = [u \in UIDs |-> Get(u)]]
    /\ http' = "off"
    /\ UNCHANGED <<mu, th, threshold, nread, store>>

Next ==
    \/ LoadFromDBEnumerateFail
    \/ LoadFromDBEnumerate
    \/ LoadFromDBInsert
    \/ LoadFromDBSkip
    \/ LoadFromDBReturn
    \/ StartConsumer
    \/ ReadError
    \/ ReadMessage
    \/ SaveBatchBeginFail
    \/ SaveBatchBegin
    \/ SaveBatchSkipInvalid
    \/ SaveBatchInsert
    \/ SaveBatchInsertFail
    \/ SaveBatchCommit
    \/ SaveBatchCommitFail
    \/ RunAfterSave
    \/ RunCacheSet
    \/ Cancel
    \/ Restart

Spec == Init /\ [][Next]_vars

\* One life of the process, the steps of Consumer.Run scheduled fairly: the
\* goroutine that runs Run is never starved, a SaveBatch call returns, and a
\* read blocked on a cancelled context returns its error.
RunStep ==
    \/ SaveBatchBeginFail
    \/ SaveBatchBegin
    \/ SaveBatchSkipInvalid
    \/ SaveBatchInsert
    \/ SaveBatchInsertFail
    \/ SaveBatchCommit
    \/ SaveBatchCommitFail
    \/ RunAfterSave
    \/ RunCacheSet
    \/ (cancelled /\ ReadError)

ProcessNext ==
    \/ LoadFromDBEnumerateFail
    \/ LoadFromDBEnumerate
    \/ LoadFromDBInsert
    \/ LoadFromDBSkip
    \/ LoadFromDBReturn
    \/ StartConsumer
    \/ ReadError
    \/ ReadMessage
    \/ SaveBatchBeginFail
    \/ SaveBatchBegin
    \/ SaveBatchSkipInvalid
    \/ SaveBatchInsert
    \/ SaveBatchInsertFail
    \/ SaveBatchCommit
    \/ SaveBatchCommitFail
    \/ RunAfterSave
    \/ RunCacheSet
    \/ Cancel

FairSpec == Init /\ [][ProcessNext]_vars /\ WF_vars(RunStep)

\* ------------------------------------------------ the running application
\* main with its goroutines: the consumer goroutine cancels the shared
\* context when Run returns an error, and srv.Start, which main is blocked
\* in, returns on that context or on a failure of ListenAndServe. When
\* Start returns main logs its error, if any, and returns: the deferred
\* cancel runs and the process ends with its memory, an open transaction
\* dying with its connection.
MainExit(how) ==
    /\ http' = "stopped"
    /\ pc' = "exited"
    /\ cancelled' = TRUE
    /\ heap' = <<>>
    /\ cache' = EmptyFn
    /\ orders' = <<>>
    /\ cur' = 0
    /\ idx' = 0
    /\ tx' = EmptyRows
    /\ saveErr' = FALSE
    /\ toLoad' = {}
    /\ hist' = [NoHistory EXCEPT !.exit = how]
    /\ UNCHANGED <<mu, th, threshold, nread, store, restarts>>

\* The consumer goroutine only logging the error Run returned.
RunErrorOnlyLogged ==
    /\ pc = "stopped"
    /\ ~cancelled
    /\ UNCHANGED vars

\* main, consumer goroutine: Run returned an error; it is logged and
\* cancel() is called.
RunErrorCancels ==
    /\ pc = "stopped"
    /\ ~cancelled
    /\ cancelled' = TRUE
    /\ UNCHANGED <<mu, th, http, threshold, pc, heap, cache, orders, cur,
                   nread, idx, tx, saveErr, store, toLoad, restarts, hist>>

\* server: Start takes the ctx.Done() case, calls Shutdown with its five
\* second limit and returns nil or the error of Shutdown.
ServerShutdown ==
    /\ http = "serving"
    /\ cancelled
    /\ MainExit("shutdown")

\* server: ListenAndServe fails and Start returns its error.
ServerListenError ==
    /\ http = "serving"
    /\ MainExit("listen")

AppNext ==
    \/ LoadFromDBEnumerateFail
    \/ LoadFromDBEnumerate
    \/ LoadFromDBInsert
    \/ LoadFromDBSkip
    \/ LoadFromDBReturn
    \/ StartConsumer
    \/ ReadError
    \/ ReadMessage
    \/ SaveBatchBeginFail
    \/ SaveBatchBegin
    \/ SaveBatchSkipInvalid
    \/ SaveBatchInsert
    \/ SaveBatchInsertFail
    \/ SaveBatchCommit
    \/ SaveBatchCommitFail
    \/ RunAfterSave
    \/ RunCacheSet
    \/ Cancel
    \/ RunErrorCancels
    \/ ServerShutdown
    \/ ServerListenError

\* The goroutines are scheduled fairly: Run as in FairSpec, the consumer
\* goroutine reaches its cancel(), and Start's select takes the ctx.Done()
\* case once the context is cancelled (Shutdown returns within its limit).
AppSpec ==
    /\ Init
    /\ [][AppNext]_vars
    /\ WF_vars(RunStep)
    /\ WF_vars(RunErrorCancels)
    /\ WF_vars(ServerShutdown)

\* ------------------------------------------------- the order service API
\* The order service called directly, as OrderService exports it: SaveOrder
\* with one reference and SaveBatch with a slice of references, each of
\* which may be nil. One call at a time; every call starts with fresh
\* objects against the store the earlier calls left.
ServiceRefs == Payloads \cup {Nil}

ServiceBatches == UNION {[1..n -> ServiceRefs] : n \in 0..MaxBatch}

\* The objects a slice of references points to, and the slice as addresses
\* of those objects.
BatchObjects(b) == SelectSeq(b, LAMBDA r : r # Nil)

BatchAddrs(b) ==
    [i \in 1..Len(b) |->
        IF b[i] = Nil THEN NilRef
        ELSE Len(BatchObjects(SubSeq(b, 1, i)))]

ServiceInit ==
    /\ threshold = batchSize
    /\ pc = "call"
    /\ heap = <<>>
    /\ cache = EmptyFn
    /\ orders = <<>>
    /\ cur = 0
    /\ nread = 0
    /\ idx = 0
    /\ tx = EmptyRows
    /\ saveErr = FALSE
    /\ store \in InitialStores
    /\ cancelled = FALSE
    /\ toLoad = {}
    /\ restarts = 0
    /\ http = "off"
    /\ mu = FreeLock
    /\ th = IdleCallers
    /\ hist = NoHistory

\* service: SaveOrder(ctx, order) is SaveBatch(ctx, []*model.Order{order}).
CallSaveOrder ==
    /\ pc = "call"
    /\ hist.calls < MaxCalls
    /\ \E r \in ServiceRefs :
        /\ heap' = BatchObjects(<<r>>)
        /\ orders' = BatchAddrs(<<r>>)
    /\ pc' = "begin"
    /\ saveErr' = FALSE
    /\ hist' = [NoHistory EXCEPT !.calls = hist.calls + 1,
                                 !.api = "SaveOrder", !.atBegin = store]
    /\ UNCHANGED <<mu, th, http, threshold, cache, cur, nread, idx, tx, store,
                   cancelled, toLoad, restarts>>

\* service: SaveBatch(ctx, orders); an empty slice returns nil at once.
CallSaveBatch ==
    /\ pc = "call"
    /\ hist.calls < MaxCalls
    /\ \E b \in ServiceBatches :
        /\ heap' = BatchObjects(b)
        /\ orders' = BatchAddrs(b)
        /\ pc' = IF Len(b) = 0 THEN "ret" ELSE "begin"
    /\ saveErr' = FALSE
    /\ hist' = [NoHistory EXCEPT !.calls = hist.calls + 1,
                                 !.api = "SaveBatch", !.atBegin = store]
    /\ UNCHANGED <<mu, th, http, threshold, cache, cur, nread, idx, tx, store,
                   cancelled, toLoad, restarts>>

\* SaveBatch without the recover in its deferred function: the panic leaves
\* the call with the transaction still open.
SaveBatchNilEntryNoRecover ==
    /\ pc = "insert"
    /\ idx <= Len(orders)
    /\ orders[idx] = NilRef
    /\ ~validateOrder(Nil)
    /\ pc' = "panicked"
    /\ hist' = [hist EXCEPT !.rejected = @ \cup {NilRef},
                            !.failure = "panic"]
    /\ UNCHANGED <<mu, th, http, threshold, heap, cache, orders, cur, nread, idx,
                   tx, store, saveErr, cancelled, toLoad, restarts>>

\* SaveBatch: the entry is nil. validateOrder returns its error and the
\* warning that follows reads order.OrderUID through the nil reference: a
\* run-time panic, on which the deferred function rolls the transaction
\* back and panics again.
SaveBatchNilEntry ==
    /\ pc = "insert"
    /\ idx <= Len(orders)
    /\ orders[idx] = NilRef
    /\ ~validateOrder(Nil)
    /\ store' = Rollback(store, tx)
    /\ tx' = EmptyRows
    /\ pc' = "panicked"
    /\ hist' = [hist EXCEPT !.rejected = @ \cup {NilRef},
                            !.failure = "panic",
                            !.closes = <<"rollback">>]
    /\ UNCHANGED <<mu, th, http, threshold, heap, cache, orders, cur, nread, idx,
                   saveErr, cancelled, toLoad, restarts>>

\* service: GetOrderByID(ctx, orderUID): the order is returned when no read
\* returned an error, and nil with the error of the first read that did.
CallGetOrderByID ==
    /\ pc = "call"
    /\ hist.calls < MaxCalls
    /\ \E uid \in UIDs, broken \in ReadFailures :
        LET err == GetOrderByIDErr(store, uid, broken)
        IN  hist' = [NoHistory EXCEPT
                       !.calls = hist.calls + 1,
                       !.api = "GetOrderByID",
                       !.atBegin = store,
                       !.got = [uid |-> uid, broken |-> broken, err |-> err,
                                order |-> IF err = "none"
                                          THEN GetOrderByID(store, uid)
                                          ELSE <<>>]]
    /\ pc' = "ret"
    /\ UNCHANGED <<mu, th, http, threshold, heap, cache, orders, cur, nread,
                   idx, tx, saveErr, store, cancelled, toLoad, restarts>>

\* The caller has the result of its call and may call again.
ServiceReturn ==
    /\ pc = "ret"
    /\ pc' = "call"
    /\ orders' = <<>>
    /\ heap' = <<>>
    /\ idx' = 0
    /\ saveErr' = FALSE
    /\ hist' = [NoHistory EXCEPT !.calls = hist.calls]
    /\ UNCHANGED <<mu, th, http, threshold, cache, cur, nread, tx, store, cancelled,
                   toLoad, restarts>>

ServiceNext ==
    \/ CallSaveOrder
    \/ CallSaveBatch
    \/ CallGetOrderByID
    \/ SaveBatchBeginFail
    \/ SaveBatchBegin
    \/ SaveBatchSkipInvalid
    \/ SaveBatchNilEntry
    \/ SaveBatchInsert
    \/ SaveBatchInsertFail
    \/ SaveBatchCommit
    \/ SaveBatchCommitFail
    \/ ServiceReturn

ServiceSpec == ServiceInit /\ [][ServiceNext]_vars

\* ------------------------------------------- the cache under concurrency
\* OrderCache with its callers running concurrently, one step per lock
\* operation: LoadFromDB on main, Set as Run calls it, Get and GetAll as the
\* request handlers call them. A deferred unlock is the last step of its
\* call. A reader is admitted whenever no writer holds the lock.
SeqOf(S) == CHOOSE q \in [1..Cardinality(S) -> S] : Range(q) = S

\* The orders Set is called with, allocated before the callers start.
SetterObjects == SeqOf(ValidPayloads)

\* Stores with an order "b", alone or next to the seed order.
CacheStores ==
    { Commit(st, insertOrderData(EmptyRows, MkOrder("b", 1, "n", "p", <<2>>, 4),
                                 4))
        : st \in InitialStores }

\* The entries of the map, as the references they hold.
Entries == {cache[u] : u \in DOMAIN cache}

CacheInit ==
    /\ threshold = batchSize
    /\ pc = "load"
    /\ heap = SetterObjects
    /\ cache = EmptyFn
    /\ orders = <<>>
    /\ cur = 0
    /\ nread = 0
    /\ idx = 0
    /\ tx = EmptyRows
    /\ saveErr = FALSE
    /\ store \in CacheStores
    /\ cancelled = FALSE
    /\ toLoad = {}
    /\ restarts = 0
    /\ http = "off"
    /\ mu = FreeLock
    /\ th = IdleCallers
    /\ hist = NoHistory

\* LoadFromDB taking the lock before it loads the order.
CacheLoadFullOrderLocked ==
    /\ pc = "loading"
    /\ mu = FreeLock
    /\ \E u \in toLoad :
        /\ loadFullOrder(store, u) # <<>>
        /\ heap' = Append(heap, loadFullOrder(store, u)[1])
        /\ cur' = Len(heap) + 1
        /\ toLoad' = toLoad \ {u}
    /\ mu' = [mu EXCEPT !.w = Loader]
    /\ pc' = "ld_loaded"
    /\ UNCHANGED <<th, http, threshold, cache, orders, nread, idx, tx,
                   saveErr, store, cancelled, restarts, hist>>

\* LoadFromDB: loadFullOrder for the next uid succeeds; no lock is held.
CacheLoadFullOrder ==
    /\ pc = "loading"
    /\ \E u \in toLoad :
        /\ loadFullOrder(store, u) # <<>>
        /\ heap' = Append(heap, loadFullOrder(store, u)[1])
        /\ cur' = Len(heap) + 1
        /\ toLoad' = toLoad \ {u}
    /\ pc' = "ld_loaded"
    /\ UNCHANGED <<mu, th, http, threshold, cache, orders, nread, idx, tx,
                   saveErr, store, cancelled, restarts, hist>>

\* LoadFromDB: c.mu.Lock().
CacheLoadLock ==
    /\ pc = "ld_loaded"
    /\ mu = FreeLock
    /\ mu' = [mu EXCEPT !.w = Loader]
    /\ pc' = "ld_locked"
    /\ UNCHANGED <<th, http, threshold, heap, cache, orders, cur, nread, idx,
                   tx, saveErr, store, cancelled, toLoad, restarts, hist>>

\* LoadFromDB: c.cache[uid] = o; c.mu.Unlock().
CacheLoadInsert ==
    /\ pc = "ld_locked"
    /\ cache' = Put(cache, heap[cur].uid, cur)
    /\ mu' = [mu EXCEPT !.w = IF @ = Loader THEN NoWriter ELSE @]
    /\ cur' = 0
    /\ pc' = "loading"
    /\ hist' = [hist EXCEPT
                  !.everStored = @ \cup {heap[cur].uid},
                  !.durable = @ \cup {cur},
                  !.bare = IF mu.w = Loader THEN @
                           ELSE @ \cup {"LoadFromDB"}]
    /\ UNCHANGED <<th, http, threshold, heap, orders, nread, idx, tx,
                   saveErr, store, cancelled, toLoad, restarts>>

\* Set taking the lock shared, with RLock.
SetLockShared ==
    /\ th[Setter].pc = "idle"
    /\ mu.w = NoWriter
    /\ \E a \in DOMAIN SetterObjects :
        th' = [th EXCEPT ![Setter] = [Idle EXCEPT !.pc = "set", !.arg = a]]
    /\ mu' = [mu EXCEPT !.r = @ \cup {Setter}]
    /\ UNCHANGED <<http, threshold, pc, heap, cache, orders, cur, nread, idx,
                   tx, saveErr, store, cancelled, toLoad, restarts, hist>>

\* Set: c.mu.Lock().
SetLock ==
    /\ th[Setter].pc = "idle"
    /\ mu = FreeLock
    /\ \E a \in DOMAIN SetterObjects :
        th' = [th EXCEPT ![Setter] = [Idle EXCEPT !.pc = "set", !.arg = a]]
    /\ mu' = [mu EXCEPT !.w = Setter]
    /\ UNCHANGED <<http, threshold, pc, heap, cache, orders, cur, nread, idx,
                   tx, saveErr, store, cancelled, toLoad, restarts, hist>>

\* Set: c.cache[order.OrderUID] = order, then the deferred Unlock.
SetReturn ==
    /\ th[Setter].pc = "set"
    /\ cache' = Set(cache, th[Setter].arg)
    /\ mu' = [mu EXCEPT !.w = IF @ = Setter THEN NoWriter ELSE @,
                        !.r = @ \ {Setter}]
    /\ th' = [th EXCEPT ![Setter] = Idle]
    /\ hist' = [hist EXCEPT
                  !.everStored = @ \cup {heap[th[Setter].arg].uid},
                  !.bare = IF mu.w = Setter THEN @ ELSE @ \cup {"Set"}]
    /\ UNCHANGED <<http, threshold, pc, heap, orders, cur, nread, idx, tx,
                   saveErr, store, cancelled, toLoad, restarts>>

\* handleGetOrderByID: a request without an order id is answered 400 before
\* the cache is asked.
handleGetOrderByIDBadRequest ==
    /\ \E r \in Readers :
        /\ th[r].pc = "idle"
        /\ th' = [th EXCEPT ![r] = [Idle EXCEPT !.arg = "", !.resp = <<400>>]]
    /\ UNCHANGED <<mu, http, threshold, pc, heap, cache, orders, cur, nread,
                   idx, tx, saveErr, store, cancelled, toLoad, restarts, hist>>

\* handleGetOrderByID calls s.cache.Get(orderID) with the non-empty id of
\* the request. Get: c.mu.RLock().
GetRLock ==
    /\ mu.w = NoWriter
    /\ \E r \in Readers, u \in UIDs \ {""} :
        /\ th[r].pc = "idle"
        /\ th' = [th EXCEPT ![r] = [Idle EXCEPT !.pc = "get", !.arg = u]]
        /\ mu' = [mu EXCEPT !.r = @ \cup {r}]
    /\ UNCHANGED <<http, threshold, pc, heap, cache, orders, cur, nread, idx,
                   tx, saveErr, store, cancelled, toLoad, restarts, hist>>

\* A handler that loads the order from the store when the cache has none.
handleGetOrderByIDReadsThrough ==
    /\ \E r \in Readers :
        /\ th[r].pc = "respond"
        /\ th' = [th EXCEPT ![r] =
                    [Idle EXCEPT
                       !.arg = th[r].arg,
                       !.got = th[r].got,
                       !.resp = IF th[r].got = <<>>
                                   /\ loadFullOrder(store, th[r].arg) = <<>>
                                THEN <<404>> ELSE <<200>> \o th[r].got]]
    /\ UNCHANGED <<mu, http, threshold, pc, heap, cache, orders, cur, nread,
                   idx, tx, saveErr, store, cancelled, toLoad, restarts, hist>>

\* handleGetOrderByID with the result of Get: 404 for nil; otherwise the
\* order is encoded into the response, 200, or 500 when encoding fails.
handleGetOrderByIDRespond ==
    /\ \E r \in Readers :
        /\ th[r].pc = "respond"
        /\ \E encoded \in BOOLEAN :
            th' = [th EXCEPT ![r] =
                     [Idle EXCEPT
                        !.arg = th[r].arg,
                        !.got = th[r].got,
                        !.resp = IF th[r].got = <<>> THEN <<404>>
                                 ELSE IF encoded THEN <<200>> \o th[r].got
                                 ELSE <<500>>]]
    /\ UNCHANGED <<mu, http, threshold, pc, heap, cache, orders, cur, nread,
                   idx, tx, saveErr, store, cancelled, toLoad, restarts, hist>>

\* Get: order := c.cache[orderUID], then the deferred RUnlock; the reference
\* found (none for nil) is returned to the handler.
GetReturn ==
    /\ \E r \in Readers :
        /\ th[r].pc = "get"
        /\ th' = [th EXCEPT ![r] =
                    [Idle EXCEPT
                       !.pc = "respond",
                       !.arg = th[r].arg,
                       !.got = IF th[r].arg \in DOMAIN cache
                               THEN <<cache[th[r].arg]>> ELSE <<>>]]
        /\ mu' = [mu EXCEPT !.r = @ \ {r}]
        /\ hist' = [hist EXCEPT
                      !.bare = IF r \in mu.r THEN @ ELSE @ \cup {"Get"}]
    /\ UNCHANGED <<http, threshold, pc, heap, cache, orders, cur, nread, idx,
                   tx, saveErr, store, cancelled, toLoad, restarts>>

\* GetAll: c.mu.RLock().
GetAllRLock ==
    /\ mu.w = NoWriter
    /\ \E r \in Readers :
        /\ th[r].pc = "idle"
        /\ th' = [th EXCEPT ![r] = [Idle EXCEPT !.pc = "all"]]
        /\ mu' = [mu EXCEPT !.r = @ \cup {r}]
    /\ UNCHANGED <<http, threshold, pc, heap, cache, orders, cur, nread, idx,
                   tx, saveErr, store, cancelled, toLoad, restarts, hist>>

\* GetAll handing out a view of the map instead of a new slice.
GetAllLiveView == <<"live", {}>>

\* The list GetAll builds: a new slice with the references of the entries.
GetAllResult == <<"copy", Entries>>

\* GetAll: the entries are appended to the new slice, then the deferred
\* RUnlock; the caller keeps the slice.
GetAllReturn ==
    /\ \E r \in Readers :
        /\ th[r].pc = "all"
        /\ th' = [th EXCEPT ![r] = [Idle EXCEPT !.res = GetAllResult,
                                                !.snap = Entries]]
        /\ mu' = [mu EXCEPT !.r = @ \ {r}]
        /\ hist' = [hist EXCEPT
                      !.bare = IF r \in mu.r THEN @ ELSE @ \cup {"GetAll"}]
    /\ UNCHANGED <<http, threshold, pc, heap, cache, orders, cur, nread, idx,
                   tx, saveErr, store, cancelled, toLoad, restarts>>

CacheNext ==
    \/ LoadFromDBEnumerateFail
    \/ LoadFromDBEnumerate
    \/ LoadFromDBSkip
    \/ LoadFromDBReturn
    \/ CacheLoadFullOrder
    \/ CacheLoadLock
    \/ CacheLoadInsert
    \/ SetLock
    \/ SetReturn
    \/ handleGetOrderByIDBadRequest
    \/ GetRLock
    \/ GetReturn
    \/ handleGetOrderByIDRespond
    \/ GetAllRLock
    \/ GetAllReturn

CacheSpec == CacheInit /\ [][CacheNext]_vars

\* ================================================================= claims
\* SaveBatch has just returned an error to Run after an insert failed or
\* with the context cancelled, for a batch of more than one order.
FailedBatchReturned ==
    /\ pc = "ret" /\ saveErr /\ Len(orders) > 1
    /\ (hist.failure = "insert" \/ hist.failCancelled)

\* The configuration the source is built with: batchSize = 1.
AsBuilt == threshold = batchSize

\* A full aggregate: non-empty order_uid, a delivery with name and phone, a
\* payment and at least one item.
FullAggregate(o) ==
    /\ o.uid # ""
    /\ o.delivery.name # "" /\ o.delivery.phone # ""
    /\ "amount" \in DOMAIN o.payment
    /\ Len(o.items) >= 1

\* C1: every order Run has written into the cache with Set belongs to a
\* batch for which SaveBatch returned success, and an order whose batch's
\* SaveBatch returned an error is never written into the cache by Run
\* (stated for the batch size the source is built with).
C1_SetOnlyAfterSuccessfulSave ==
    AsBuilt =>
        \A a \in hist.setByRun : a \in hist.savedOk /\ a \notin hist.failed

\* C2: an order decoded by Run is not returned by Get or GetAll before the
\* SaveBatch transaction that contains it has committed; an order still
\* buffered in a batch below the threshold is not in the cache.
C2_NotVisibleBeforeCommit ==
    /\ \A u \in UIDs :
         (Get(u) # <<>> /\ cache[u] \in hist.decoded)
            => cache[u] \in hist.committed
    /\ \A a \in Range(orders) :
         pc \in {"read", "stopped"} => heap[a] \notin GetAll

\* C3: a decoded order with zero items, an empty order_uid or an empty
\* Delivery.Name or Delivery.Phone is never inserted into the store by
\* SaveBatch and never written into the cache by Run (stated for the batch
\* size the source is built with).
C3_InvalidNeverStoredNorCached ==
    AsBuilt =>
    \A a \in hist.decoded :
        (\/ Len(heap[a].items) = 0
         \/ heap[a].uid = ""
         \/ heap[a].delivery.name = ""
         \/ heap[a].delivery.phone = "")
        => (a \notin hist.inserted /\ a \notin hist.setByRun)

\* C4 as claimed: after a SaveBatch call over more than one order has
\* returned an error, the store holds no row of any order of the batch and
\* GetOrderByID reports not found for each of them.
C4_FailedBatchLeavesNoRowOfItsOrders ==
    FailedBatchReturned =>
        \A a \in Range(orders) :
            /\ GetOrderByID(store, heap[a].uid) = <<>>
            /\ \A t \in DOMAIN store : heap[a].uid \notin DOMAIN store[t]

\* C4 as amended: after a SaveBatch call over more than one order has
\* returned an error, the store is exactly as it was when the call began
\* (no row written by the call is kept, the rows of the orders whose inserts
\* had succeeded included), and GetOrderByID reports not found for every
\* order of the batch whose order_uid was not stored before the call.
C4_FailedBatchLeavesStoreAsBefore ==
    FailedBatchReturned =>
        /\ store = hist.atBegin
        /\ \A a \in Range(orders) :
             heap[a].uid \notin DOMAIN hist.atBegin.orders
                => /\ GetOrderByID(store, heap[a].uid) = <<>>
                   /\ \A t \in DOMAIN store : heap[a].uid \notin DOMAIN store[t]

\* C4 witness: a batch of two whose first order had all its rows inserted
\* and whose second order then failed, after the call has returned.
C4_Witness ==
    /\ FailedBatchReturned /\ hist.failure = "insert"
    /\ idx = 2
    /\ orders[1] \in hist.inserted /\ orders[2] \in hist.inserted

\* C5: every order_uid with a committed orders row also has a committed
\* deliveries row, a committed payments row and at least one committed items
\* row, whatever SaveBatch calls succeeded, failed or were cancelled.
C5_CommittedHeaderHasWholeAggregate ==
    \A u \in DOMAIN store.orders :
        /\ u \in DOMAIN store.deliveries
        /\ u \in DOMAIN store.payments
        /\ u \in DOMAIN store.items
        /\ Len(store.items[u]) >= 1

\* C5 witness: the store holds an order committed by a SaveBatch call of this
\* run, after another SaveBatch call failed with rows already inserted and
\* with the context cancelled.
C5_Witness ==
    /\ \E a \in hist.committed : heap[a].uid \in DOMAIN store.orders
    /\ \E a \in hist.failed : a \in hist.inserted
    /\ cancelled

\* C6: every order Get or GetAll can return, entered through LoadFromDB or
\* through Run, is a full aggregate (stated for the batch size the source is
\* built with).
C6_CachedOrdersAreFullAggregates ==
    AsBuilt =>
        /\ \A u \in UIDs : Get(u) # <<>> => FullAggregate(Get(u)[1])
        /\ \A o \in GetAll : FullAggregate(o)

\* C7: for an order the pipeline persisted, a fresh cache against the same
\* store gives, after LoadFromDB, the same aggregate from Get (header fields
\* with date_created, delivery, payment, items) as Get gave before the
\* restart (stated for the batch size the source is built with, and for the
\* orders LoadFromDB did not skip).
C7_RestartReturnsSameAggregate ==
    (AsBuilt /\ pc = "loaded" /\ ~hist.loadErr) =>
        \A u \in DOMAIN store.orders :
            (u \notin hist.skipped /\ hist.preGet[u] # <<>>)
                => Get(u) = hist.preGet[u]

\* C8: once a message for an order_uid has been persisted and cached, no
\* later step of the same process (a later message with that order_uid
\* included) changes the aggregate the store holds or the aggregate Get
\* returns for that order_uid (stated for the batch size the source is built
\* with).
C8_OrderNeverUpdated ==
    [][ \A u \in UIDs :
          (/\ AsBuilt
           /\ restarts' = restarts
           /\ u \in DOMAIN store.orders
           /\ u \in DOMAIN cache
           /\ cache[u] \in hist.durable)
          => (/\ GetOrderByID(store', u) = GetOrderByID(store, u)
              /\ Get(u)' = Get(u)) ]_vars

\* C9: after Set(o), Get(o.order_uid) returns o, the object that was set,
\* with all its fields, as long as no other Set for that key intervenes.
C9_GetReturnsLastSet ==
    \A u \in DOMAIN hist.lastSet :
        /\ Get(u) = <<heap[hist.lastSet[u]]>>
        /\ cache[u] = hist.lastSet[u]
        /\ Get(u)[1].uid = u

\* C9 witness: the same key was set twice by Run, with different content.
C9_Witness ==
    /\ pc = "read"
    /\ \E a \in hist.setByRun, u \in DOMAIN hist.lastSet :
          /\ heap[a].uid = u
          /\ a # hist.lastSet[u]
          /\ heap[a] # heap[hist.lastSet[u]]

\* C10: Get returns nil for every order_uid that no Set call and no
\* LoadFromDB insert of this process has stored, whatever was done on other
\* keys.
C10_AbsentUnlessStored ==
    \A u \in UIDs \ hist.everStored : Get(u) = <<>>

\* C10 witness: some keys were stored, by LoadFromDB and by Set, and another
\* key never was.
C10_Witness ==
    /\ \E u \in hist.everStored : cache[u] \in hist.setByRun
    /\ \E u \in hist.everStored : cache[u] \notin hist.setByRun
    /\ UIDs \ hist.everStored # {}

\* C11: a Set for an order_uid that is already in the cache replaces the
\* entry: Get then returns the object just set, whole; the set of cached
\* keys, and so the number of entries, is as before; every other entry is
\* untouched; and setting the same object once more changes nothing.
C11_LastWriteWins ==
    [][ (pc = "set" /\ pc' = "read" /\ heap[cur].uid \in DOMAIN cache)
          => (/\ cache'[heap[cur].uid] = cur
              /\ heap'[cur] = heap[cur]
              /\ \A u \in UIDs : u = heap[cur].uid => Get(u)' = <<heap[cur]>>
              /\ DOMAIN cache' = DOMAIN cache
              /\ Cardinality(DOMAIN cache') = Cardinality(DOMAIN cache)
              /\ \A v \in DOMAIN cache \ {heap[cur].uid} :
                     cache'[v] = cache[v]
              /\ Set(cache', cur) = cache') ]_vars

\* C11 witness: Run has set an order over an entry of the same key that
\* held another order with other content, and the cache has that one entry.
C11_Witness ==
    /\ pc = "read"
    /\ Cardinality(DOMAIN cache) = 1
    /\ \E u \in DOMAIN cache, a \in hist.setByRun :
          /\ cache[u] \in hist.setByRun
          /\ a # cache[u]
          /\ heap[a].uid = u
          /\ heap[a].track # heap[cache[u]].track

\* C12: when LoadFromDB has returned without an error and without a failed
\* read, on the cache of a new process, GetAll returns exactly as many
\* orders as the store holds and Get returns, for each stored order_uid,
\* the order the store holds under it.
C12_HydrationComplete ==
    (pc = "loaded" /\ ~hist.loadErr /\ hist.skipped = {})
        => (/\ Cardinality(GetAll) = Cardinality(DOMAIN store.orders)
            /\ DOMAIN cache = DOMAIN store.orders
            /\ \A u \in DOMAIN store.orders :
                  /\ Get(u) # <<>>
                  /\ Get(u) = GetOrderByID(store, u))

\* C12 witness: LoadFromDB has returned, with no failed read, over a store
\* of two orders.
C12_Witness ==
    /\ pc = "loaded" /\ ~hist.loadErr /\ hist.skipped = {}
    /\ Cardinality(DOMAIN store.orders) = 2
    /\ Cardinality(GetAll) = 2

\* C13: an order_uid whose loadFullOrder failed is skipped with nothing
\* inserted for it; LoadFromDB still loads every other enumerated
\* order_uid and returns no error.
C13_HydrationBestEffort ==
    /\ (pc \in {"loading", "loaded"})
          => \A u \in hist.skipped : Get(u) = <<>>
    /\ (pc = "loaded" /\ hist.skipped # {})
          => (/\ ~hist.loadErr
              /\ \A u \in DOMAIN store.orders \ hist.skipped :
                    /\ Get(u) # <<>>
                    /\ Get(u) = GetOrderByID(store, u)
              /\ DOMAIN cache = DOMAIN store.orders \ hist.skipped)

\* C13 witness: LoadFromDB has returned after it skipped one stored
\* order_uid and loaded another.
C13_Witness ==
    /\ pc = "loaded"
    /\ hist.skipped # {}
    /\ DOMAIN cache # {}
    /\ hist.skipped \subseteq DOMAIN store.orders

\* The order at address a is in the store, as the rows the store keeps of
\* it.
Stored(a) ==
    GetOrderByID(store, heap[a].uid)
        = <<[heap[a] EXCEPT !.date = DbTimestamp(@)]>>

\* The order at address a is in the store and Get returns that object for
\* its order_uid.
StoredAndCached(a) ==
    /\ a <= Len(heap)
    /\ Stored(a)
    /\ heap[a].uid \in DOMAIN cache
    /\ cache[heap[a].uid] = a
    /\ Get(heap[a].uid) = <<heap[a]>>

\* C14: with Run scheduled fairly and the batch size the source is built
\* with, Run finishes the iteration of every message that decoded to a
\* valid order whose order_uid is not in the store, and when it has, the
\* order is committed to the store and is what Get returns for its
\* order_uid, unless its SaveBatch call failed; the order stays in the store
\* from then on.
C14_ValidNewOrderStoredAndCached ==
    /\ (/\ AsBuilt
        /\ pc \in {"begin", "set"} /\ cur \in Range(orders)
        /\ validateOrder(heap[cur])
        /\ GetOrderByID(store, heap[cur].uid) = <<>>)
       ~> (pc = "read" /\ Len(heap) \in hist.setByRun)
    /\ [](AsBuilt =>
            \A a \in hist.setByRun :
                (validateOrder(heap[a]) /\ a \notin hist.failed)
                    => (/\ Stored(a)
                        /\ (a = Len(heap) => StoredAndCached(a))))

\* C14 witness: a valid order with a new order_uid, read by Run, is in the
\* store and is what Get returns, with no failure in its SaveBatch call.
C14_Witness ==
    /\ AsBuilt
    /\ pc = "read"
    /\ \E a \in hist.decoded :
          /\ StoredAndCached(a)
          /\ a \in hist.committed
          /\ a \notin hist.failed
          /\ heap[a].uid # SeedOrder.uid

\* C15: while LoadFromDB has not returned, Run has not called ReadMessage,
\* has decoded and set nothing, and the HTTP server does not serve; when Run
\* reads or the server serves, LoadFromDB has returned.
C15_HydrationBeforeRunAndServer ==
    /\ (pc \in {"load", "loading"})
          => (/\ http = "off"
              /\ ~hist.readCalled
              /\ hist.decoded = {} /\ hist.setByRun = {})
    /\ (http = "serving" \/ hist.readCalled)
          => (pc \notin {"load", "loading", "loaded"} /\ toLoad = {})

\* C15 witness: LoadFromDB is in its loop, with one order inserted and
\* another still to load, in a process that follows one in which Run read
\* messages and the server served.
C15_Witness ==
    /\ pc = "loading"
    /\ restarts > 0
    /\ toLoad # {}
    /\ DOMAIN cache # {}
    /\ http = "off"

\* C16: the step in which ReadMessage returns an error takes Run from its
\* read to its return with the cache, the store and the batch buffer as
\* they are; from then on, in that process, Run stays returned, reads no
\* message, and no SaveBatch or Set call changes the store, a transaction or
\* the cache.
C16_ReadFailureIsFatal ==
    [][ /\ (hist'.readFailed /\ ~hist.readFailed)
            => (/\ pc = "read" /\ pc' = "stopped"
                /\ cache' = cache /\ store' = store /\ tx' = tx
                /\ orders' = orders /\ nread' = nread)
        /\ (hist.readFailed /\ restarts' = restarts)
            => (/\ pc = "stopped" /\ pc' = "stopped"
                /\ nread' = nread
                /\ cache' = cache /\ store' = store /\ tx' = tx
                /\ hist'.setByRun = hist.setByRun
                /\ hist'.committed = hist.committed
                /\ hist'.failed = hist.failed) ]_vars

\* C16 witness: Run has returned on a read error with an order still in its
\* batch buffer and messages left to read, the context cancelled.
C16_Witness ==
    /\ pc = "stopped"
    /\ hist.readFailed
    /\ orders # <<>>
    /\ nread < MaxMsgs
    /\ cancelled

\* C17: the step that reads a message whose value does not decode leaves
\* the store, the open transaction, the cache and the batch buffer as they
\* are, creates no order, calls neither SaveBatch nor Set, and leaves Run
\* at its read of the next message.
C17_DecodeFailureIsMessageScoped ==
    [][ (hist'.bad = hist.bad + 1)
          => (/\ pc = "read" /\ pc' = "read"
              /\ nread' = nread + 1
              /\ store' = store /\ tx' = tx
              /\ cache' = cache
              /\ orders' = orders
              /\ heap' = heap
              /\ hist'.decoded = hist.decoded
              /\ hist'.setByRun = hist.setByRun
              /\ hist'.committed = hist.committed
              /\ hist'.failed = hist.failed) ]_vars

\* C17 witness: an undecodable message was read while an order was
\* buffered below the threshold and the cache held an entry; Run is at its
\* next read with the buffer still holding that order.
C17_Witness ==
    /\ pc = "read"
    /\ hist.bad > 0
    /\ orders # <<>>
    /\ DOMAIN cache # {}

\* The orders of the SaveBatch calls that have returned, with or without an
\* error.
HandedToSaveBatch == hist.failed \cup hist.committed

\* C18: once SaveBatch has returned and Run has gone on, the batch buffer
\* holds no order of a SaveBatch call that returned: a failed batch is
\* dropped, and a batch handed to SaveBatch holds no order that an earlier
\* call, failed or not, was given; no call holds an order twice.
C18_FailedBatchDroppedNotRetried ==
    /\ (pc \in {"read", "set", "begin", "stopped"})
          => Range(orders) \cap HandedToSaveBatch = {}
    /\ (pc = "set" /\ cur \in hist.failed) => orders = <<>>
    /\ \A i, j \in DOMAIN orders : orders[i] = orders[j] => i = j

\* C18 witness: a batch is handed to SaveBatch after an earlier SaveBatch
\* call returned an error.
C18_Witness ==
    /\ pc = "begin"
    /\ hist.failed # {}
    /\ orders # <<>>

\* C19: Run goes from running to returned only in a step in which
\* ReadMessage returned an error (which a cancelled context causes); after
\* a decode failure Run is at its next read, an invalid order is skipped
\* inside SaveBatch, and when SaveBatch returns, with an error or without,
\* Run goes on to Set and from there to its next read.
C19_RunReturnsOnlyOnReadError ==
    [][ /\ (pc # "stopped" /\ pc' = "stopped")
            => (pc = "read" /\ hist'.readFailed /\ ~hist.readFailed)
        /\ (hist'.bad = hist.bad + 1) => pc' = "read"
        /\ (pc = "insert") => pc' \in {"insert", "ret"}
        /\ (pc = "ret") => pc' \in {"ret", "set"}
        /\ (pc = "set") => pc' \in {"set", "read"} ]_vars

\* C19 witness: after a message that did not decode and a SaveBatch call
\* that returned an error for a batch with an invalid order, Run is at its
\* read, not returned.
C19_Witness ==
    /\ pc = "read"
    /\ ~hist.readFailed
    /\ hist.bad > 0
    /\ \E a \in hist.failed : ~validateOrder(heap[a])

\* Run has been started and has not returned.
Running == pc \in {"read", "begin", "insert", "ret", "set"}

\* C20: with Run scheduled fairly, once the context is cancelled Run
\* returns; a read under the cancelled context yields no message, only the
\* error on which Run returns; after that return Run begins no SaveBatch
\* call and the store does not change, so the orders left in the batch
\* buffer were handed to no SaveBatch call and are not in the store by it.
C20_ShutdownOnCancel ==
    /\ (cancelled /\ Running) ~> (pc = "stopped")
    /\ [][ /\ (cancelled /\ pc = "read")
               => (pc' \in {"read", "stopped"} /\ nread' = nread)
           /\ (pc = "stopped")
               => (/\ pc' = "stopped"
                   /\ store' = store /\ tx' = tx
                   /\ orders' = orders) ]_vars
    /\ [](pc = "stopped"
            => (/\ Range(orders) \cap HandedToSaveBatch = {}
                /\ Range(orders) \cap hist.inserted = {}))

\* C20 witness: Run has returned under a cancelled context with an order
\* in its batch buffer that is not in the store.
C20_Witness ==
    /\ pc = "stopped"
    /\ cancelled
    /\ hist.readFailed
    /\ orders # <<>>
    /\ \E a \in Range(orders) :
          /\ validateOrder(heap[a])
          /\ GetOrderByID(store, heap[a].uid) = <<>>

\* The object a batch entry refers to: Nil for the nil reference.
At(a) == IF a = NilRef THEN Nil ELSE heap[a]

\* The orders the validation is documented to reject.
DocumentedInvalid(o) ==
    \/ o = Nil
    \/ o.uid = ""
    \/ Len(o.items) = 0
    \/ o.delivery.name = ""
    \/ o.delivery.phone = ""

\* C21: validateOrder rejects exactly the references that are nil or whose
\* order has an empty order_uid, no items, or an empty Delivery.Name or
\* Delivery.Phone: every entry SaveBatch skipped is one of those, every
\* entry it went on to insert is none of those; and the step that rejects
\* an order leaves the order, the batch, the transaction, the store and
\* the cache as they are.
C21_ValidateOrderExact ==
    /\ [](/\ \A r \in ServiceRefs : validateOrder(r) <=> ~DocumentedInvalid(r)
          /\ \A a \in hist.rejected : DocumentedInvalid(At(a))
          /\ \A a \in hist.inserted : ~DocumentedInvalid(At(a)))
    /\ [][ (hist.rejected \subseteq hist'.rejected
              /\ hist'.rejected # hist.rejected)
            => (/\ heap' = heap /\ orders' = orders
                /\ store' = store /\ cache' = cache
                /\ (NilRef \notin hist'.rejected => tx' = tx)) ]_vars

\* C21 witness: in one call SaveBatch has skipped an invalid order and
\* inserted a valid one.
C21_Witness ==
    /\ pc = "insert"
    /\ \E a \in hist.rejected : a # NilRef /\ heap[a].delivery.phone = ""
    /\ hist.inserted # {}

\* C22: when SaveOrder has returned, it returned an error if the order
\* failed validation or a stage of the transaction failed, and it returned
\* nil only with the order committed to the store.
C22_SaveOrderNilOnlyWhenCommitted ==
    (hist.api = "SaveOrder" /\ pc = "ret")
        => (/\ (hist.rejected # {} \/ hist.failure # "none") => saveErr
            /\ ~saveErr => (/\ orders[1] # NilRef
                            /\ orders[1] \in hist.inserted
                            /\ Stored(orders[1])))

InSet == th[Setter].pc = "set"
InLoadInsert == pc = "ld_locked"
InRead(r) == th[r].pc \in {"get", "all"}

\* C24: while Set or the map insert of LoadFromDB holds the lock, no Get,
\* no GetAll and no other writer holds it; the lock has a writer only with
\* no reader.
C24_WritersExclusive ==
    /\ (mu.w # NoWriter) => (mu.r = {})
    /\ ~(InSet /\ InLoadInsert)
    /\ (InSet \/ InLoadInsert) => (\A r \in Readers : ~InRead(r))
    /\ InSet => (mu.w = Setter)
    /\ InLoadInsert => (mu.w = Loader)

\* C24 witness: a Get and a GetAll hold the lock at the same time, in the
\* middle of a hydration that has inserted an entry.
C24_Witness ==
    /\ \E r1, r2 \in Readers :
          r1 # r2 /\ th[r1].pc = "get" /\ th[r2].pc = "all"
    /\ mu.r = Readers
    /\ pc = "ld_loaded"
    /\ cache # EmptyFn

\* The members of a list GetAll returned, as its holder reads them now.
ListOf(res) == IF res[1] = "live" THEN Entries ELSE res[2]

C26_EveryMapAccessUnderLock == hist.bare = {}

\* C27: LoadFromDB holds the write lock exactly between the Lock and the
\* Unlock around one map insert: not while it enumerates the uids, not
\* while it loads an order, not after its loop; it never holds the lock
\* shared.
C27_LoadLocksPerInsert ==
    /\ (mu.w = Loader) <=> (pc = "ld_locked")
    /\ Loader \notin mu.r

\* C27 witness: between two inserts of one hydration, with the second order
\* loaded and not yet inserted and the lock free, a caller holds the list
\* of a GetAll that ran after the first insert.
C27_Witness ==
    /\ pc = "ld_loaded"
    /\ mu = FreeLock
    /\ Cardinality(hist.durable) = 1
    /\ \E r \in Readers :
          th[r].res # <<>> /\ ListOf(th[r].res) = hist.durable

\* C28: SaveBatch over a batch that holds a nil reference does not panic:
\* the nil entry is rejected like any other invalid order, and the call
\* comes back to its caller with nothing inserted for that entry.
C28_NilOrderRejectedWithoutPanic ==
    /\ NilRef \in Range(orders) => pc # "panicked"
    /\ NilRef \in hist.rejected => hist.failure # "panic"

\* C29: when Begin, an insert or Commit has failed, SaveBatch returns a
\* non-nil error and the store holds exactly the rows it held when the
\* call began; a nil result means no stage failed.
C29_PersistenceErrorsReturned ==
    /\ (pc = "ret" /\ hist.failure \in {"begin", "insert", "commit"})
          => (saveErr /\ store = hist.atBegin)
    /\ (pc = "ret" /\ ~saveErr) => hist.failure = "none"

\* C29 witness: a batch of two whose first order was inserted and whose
\* second insert failed part-way; the error is returned and the store is
\* as it was.
C29_Witness ==
    /\ pc = "ret"
    /\ hist.failure = "insert"
    /\ Len(orders) = 2
    /\ hist.inserted # {}
    /\ hist.partial # EmptyRows
    /\ saveErr
    /\ store = hist.atBegin

\* The rows of a transaction follow the order of insertOrderData: a delivery
\* only with its header, a payment only with its delivery, items only with
\* the payment.
HeaderFirst(rows) ==
    /\ DOMAIN rows.deliveries \subseteq DOMAIN rows.orders
    /\ DOMAIN rows.payments \subseteq DOMAIN rows.deliveries
    /\ DOMAIN rows.items \subseteq DOMAIN rows.payments

\* The i-th order of the batch is one SaveBatch inserts.
InsertedEntry(i) ==
    orders[i] # NilRef /\ validateOrder(heap[orders[i]])

\* All rows of order o are in the transaction.
AllRowsIn(rows, o) ==
    /\ o.uid \in DOMAIN rows.orders
    /\ o.uid \in DOMAIN rows.deliveries
    /\ o.uid \in DOMAIN rows.payments
    /\ o.uid \in DOMAIN rows.items
    /\ Len(rows.items[o.uid]) >= Len(o.items)

\* The j-th order is the first of the batch with its order_uid, so that a
\* header with that order_uid is its header.
FirstOfUID(j) ==
    \A k \in 1..(j - 1) :
        InsertedEntry(k) => heap[orders[k]].uid # heap[orders[j]].uid

\* The transaction has a header of the j-th order only if every valid order
\* before it in the batch has all its rows.
BatchOrder(rows) ==
    \A i, j \in 1..Len(orders) :
        (i < j /\ InsertedEntry(i) /\ InsertedEntry(j) /\ FirstOfUID(j)
           /\ heap[orders[j]].uid \in DOMAIN rows.orders)
            => AllRowsIn(rows, heap[orders[i]])

\* C30: within one SaveBatch call the transaction, as it grows and as it
\* stands when an insert fails, has the orders in batch order and for each
\* order the header before the delivery, the payment and the items.
C30_InsertionOrder ==
    (pc \in {"insert", "ret"}) =>
        /\ HeaderFirst(tx) /\ BatchOrder(tx)
        /\ HeaderFirst(hist.partial) /\ BatchOrder(hist.partial)

\* C30 witness: a batch of two valid orders; the first has all its rows and
\* the insert of the second failed after its header and its delivery.
C30_Witness ==
    /\ pc = "ret"
    /\ hist.failure = "insert"
    /\ Len(orders) = 2
    /\ Cardinality(DOMAIN hist.partial.orders) = 2
    /\ Cardinality(DOMAIN hist.partial.deliveries) = 2
    /\ Cardinality(DOMAIN hist.partial.payments) = 1
    /\ AllRowsIn(hist.partial, heap[orders[1]])

\* A SaveBatch call issued by Run has not returned to Run yet.
SaveBatchInFlight == pc \in {"begin", "insert", "ret"}

\* C31: Run works on one message at a time and in the order it read them.
\* The only decoded order not yet put in the cache is the one of the current
\* iteration, and it is later than every order already put there; when Run
\* is about to read, nothing of an earlier message is pending and no
\* SaveBatch call or transaction is open; a SaveBatch call in flight is the
\* one of the current iteration; with batchSize = 1 every earlier message
\* has been through SaveBatch before the next read.
C31_OneMessageAtATimeInOrder ==
    /\ (hist.decoded \ hist.setByRun) \subseteq {cur}
    /\ \A a \in hist.setByRun : \A b \in hist.decoded \ hist.setByRun : a < b
    /\ (pc \in {"read", "stopped"})
          => (cur = 0 /\ tx = EmptyRows /\ idx = 0 /\ ~saveErr)
    /\ SaveBatchInFlight => (cur \in Range(orders) /\ cur = orders[Len(orders)])
    /\ (tx # EmptyRows) => (pc = "insert")
    /\ (AsBuilt /\ pc \in {"read", "stopped", "set"})
          => (orders = <<>> /\ hist.decoded \subseteq (hist.savedOk \cup hist.failed))

\* C31 witness: two messages were read one after the other; the order of
\* the first is in the cache and has been through SaveBatch, and SaveBatch
\* is in flight for the second.
C31_Witness ==
    /\ AsBuilt
    /\ nread = 2
    /\ pc = "insert"
    /\ Cardinality(hist.decoded) = 2
    /\ Cardinality(hist.setByRun) = 1
    /\ hist.setByRun \subseteq (hist.savedOk \cup hist.failed)

\* The header row a step of SaveBatch wrote for the order at address a: in
\* the transaction after the step, or in the transaction as it stood when
\* the insert failed.
HeaderWritten(a, before, after) ==
    /\ heap[a].uid \notin DOMAIN before.orders
    /\ heap[a].uid \in DOMAIN after.orders

\* C32: the only change SaveBatch makes to an order is to give a valid
\* order with an unset date_created the current time, in the iteration
\* that inserts it, and the header written in that iteration carries the
\* assigned value; an order with a date_created keeps it, an order that
\* failed validation is not touched, and no header is written with an
\* unset date_created.
C32_DateCreatedSetOnceAtPersistence ==
    [][\A a \in DOMAIN heap \cap DOMAIN heap' :
        /\ (heap'[a] # heap[a]) =>
              /\ pc = "insert" /\ idx <= Len(orders) /\ orders[idx] = a
              /\ validateOrder(heap[a])
              /\ heap[a].date = ZeroTime
              /\ \E now \in NowValues :
                    heap'[a] = [heap[a] EXCEPT !.date = now]
        /\ (pc = "insert" /\ idx <= Len(orders) /\ orders[idx] = a) =>
              /\ HeaderWritten(a, tx, tx') =>
                    /\ heap'[a].date # ZeroTime
                    /\ tx'.orders[heap[a].uid].date
                          = DbTimestamp(heap'[a].date)
              /\ HeaderWritten(a, tx, hist'.partial) =>
                    /\ heap'[a].date # ZeroTime
                    /\ hist'.partial.orders[heap[a].uid].date
                          = DbTimestamp(heap'[a].date)
      ]_vars

\* C32 witness: a batch of two in which an invalid order with an unset
\* date_created still has it unset after SaveBatch went past it, and a
\* valid order that came with an unset date_created now has one.
C32_Witness ==
    /\ pc = "ret"
    /\ Len(orders) = 2
    /\ orders[1] # NilRef /\ orders[2] # NilRef
    /\ orders[1] \in hist.rejected
    /\ heap[orders[1]].date = ZeroTime
    /\ orders[2] \in hist.inserted
    /\ heap[orders[2]].date \in NowValues

\* GetOrderByID has returned to its caller.
GetOrderByIDReturned == pc = "ret" /\ hist.api = "GetOrderByID"

\* C33: GetOrderByID for an order_uid without a header row returns the
\* no-rows error of the header read and no order (the header read itself
\* having run); it returns an order only with a nil error and when none of
\* the four reads failed, and the order then has the header, the delivery,
\* the payment and the items the store holds; the store is not changed.
C33_GetOrderByIDAllOrNothing ==
    GetOrderByIDReturned =>
        LET g == hist.got
            u == g.uid
        IN  /\ (u \notin DOMAIN store.orders /\ g.broken # "orders")
                  => (g.err = "no_rows" /\ g.order = <<>>)
            /\ (g.order # <<>>) <=> (g.err = "none")
            /\ (g.order # <<>>) =>
                  /\ g.broken = "none"
                  /\ u \in DOMAIN store.orders
                  /\ u \in DOMAIN store.deliveries
                  /\ u \in DOMAIN store.payments
                  /\ g.order[1].uid = store.orders[u].uid
                  /\ g.order[1].track = store.orders[u].track
                  /\ g.order[1].date = store.orders[u].date
                  /\ g.order[1].delivery = store.deliveries[u]
                  /\ g.order[1].payment = store.payments[u]
                  /\ g.order[1].items =
                        (IF u \in DOMAIN store.items THEN store.items[u]
                         ELSE <<>>)
            /\ store = hist.atBegin

\* C33 witness: after an earlier call stored an order with two items,
\* GetOrderByID returns it with both.
C33_Witness ==
    /\ GetOrderByIDReturned
    /\ hist.got.order # <<>>
    /\ Len(hist.got.order[1].items) = 2

\* What c.cache[uid] holds: the reference of the entry, none for no entry.
Lookup(uid) == IF uid \in DOMAIN cache THEN <<cache[uid]>> ELSE <<>>

\* A step of handleGetOrderByID run by handler r, the call of Get included.
HandlerStep(r) ==
    \/ th[r].pc \in {"get", "respond"} /\ th'[r].pc # th[r].pc
    \/ th[r].pc = "idle" /\ th'[r].pc = "get"
    \/ th[r].pc = "idle" /\ th[r].resp # <<400>> /\ th'[r].resp = <<400>>

\* C34: the handler answers 404 exactly when the request has an order id
\* and Get returned nil for it, 400 exactly when the request has no id, and
\* a 200 carries the order Get returned; what Get returns is the entry the
\* cache holds for the id; no step of the handler changes the cache, the
\* store or a transaction.
C34_QueryAnswersFromCacheOnly ==
    /\ [](\A r \in Readers :
            th[r].resp # <<>> =>
                /\ (th[r].resp = <<400>>) <=> (th[r].arg = "")
                /\ (th[r].resp = <<404>>)
                      <=> (th[r].arg # "" /\ th[r].got = <<>>)
                /\ (th[r].resp[1] = 200)
                      => (th[r].got # <<>> /\ th[r].resp = <<200>> \o th[r].got))
    /\ [][\A r \in Readers :
            /\ HandlerStep(r)
                  => (cache' = cache /\ store' = store /\ tx' = tx)
            /\ (th[r].pc = "get" /\ th'[r].pc = "respond")
                  => (th'[r].got = Lookup(th[r].arg)
                      /\ th'[r].arg = th[r].arg)
            /\ (th[r].pc = "respond" /\ th'[r].pc = "idle")
                  => (th'[r].got = th[r].got /\ th'[r].arg = th[r].arg)
       ]_vars

\* C34 witness: one handler answered 404 for an order_uid that is in the
\* store and was not in the cache, another answered 200 with a cached
\* order.
C34_Witness ==
    \E r1, r2 \in Readers :
        /\ th[r1].resp = <<404>>
        /\ th[r1].arg \in DOMAIN store.orders
        /\ th[r2].resp # <<>>
        /\ th[r2].resp[1] = 200

\* The orders Run decoded from messages carrying order_uid u, by address;
\* addresses grow in the order the messages were read.
DecodedWith(u) == {a \in hist.decoded : heap[a].uid = u}

LaterMessage(u) ==
    CHOOSE b \in DecodedWith(u) : \A a \in DecodedWith(u) : a <= b

SaveBatchLeft ==
    pc \in {"ret", "panicked"} /\ hist.api \in {"SaveOrder", "SaveBatch"}

\* The transaction of the current call was begun and neither tx.Commit nor
\* tx.Rollback has been issued on it.
TxOpen == hist.began /\ hist.closes = <<>>

\* C36 as stated: when SaveBatch has left a call in which it began a
\* transaction, exactly one of tx.Commit and tx.Rollback has been issued
\* and the transaction is not open.
C36_ExactlyOneCommitOrRollback ==
    (SaveBatchLeft /\ hist.began) => (~TxOpen /\ Len(hist.closes) = 1)

\* C36, amended: when SaveBatch has left a call in which it began a
\* transaction, the transaction is closed and holds no pending row: by
\* tx.Commit alone when the call succeeded, by tx.Rollback alone after an
\* insert error or a panic, and by the failed tx.Commit followed by
\* tx.Rollback after a commit error. A call that could not begin a
\* transaction issues neither, and until the call leaves the loop the
\* transaction is open.
C36_TransactionClosedOnEveryPath ==
    /\ SaveBatchLeft =>
          /\ ~TxOpen
          /\ tx = EmptyRows
          /\ ~hist.began => hist.closes = <<>>
          /\ hist.began =>
                /\ (hist.failure = "none") => hist.closes = <<"commit">>
                /\ (hist.failure \in {"insert", "panic"})
                      => hist.closes = <<"rollback">>
                /\ (hist.failure = "commit")
                      => hist.closes = <<"commit", "rollback">>
                /\ hist.failure # "begin"
    /\ (pc = "insert") => TxOpen

\* C36 witness: tx.Commit failed with rows inserted for the batch, and the
\* call has returned after the commit and the rollback were both issued.
C36_Witness ==
    /\ SaveBatchLeft
    /\ hist.failure = "commit"
    /\ hist.inserted # {}
    /\ hist.closes = <<"commit", "rollback">>
    /\ saveErr

\* C37: once Run has returned (it returns only with an error), the shared
\* context gets cancelled and Start returns, so the server stops; the step
\* that follows Run's return in the consumer goroutine is the cancel; Start
\* calls Shutdown only under the cancelled context; a server that has
\* stopped does not serve again, and the process has then ended.
C37_RunErrorStopsServer ==
    /\ (pc = "stopped") ~> (cancelled /\ http = "stopped")
    /\ [](hist.exit = "shutdown" => (cancelled /\ http = "stopped"))
    /\ [](http = "stopped" => pc = "exited")
    /\ [][ /\ (http = "stopped") => (http' = "stopped")
           /\ (hist.exit # "shutdown" /\ hist'.exit = "shutdown")
                 => (cancelled /\ http = "serving")
           /\ (pc = "stopped" /\ ~cancelled /\ pc' = "stopped")
                 => (cancelled' /\ http' = http) ]_vars

\* C37 witness: the process has ended through Shutdown after messages were
\* read, no signal having cancelled the context before Run returned.
C37_Witness ==
    /\ hist.exit = "shutdown"
    /\ http = "stopped"
    /\ nread = MaxMsgs

\* C38: in a process whose LoadFromDB returned the error of the failed
\* enumeration, nothing was loaded or skipped; when LoadFromDB has returned
\* the cache is as NewOrderCache made it and main can go on to start the
\* consumer and the server; afterwards Run runs and the server serves, the
\* cache holds only what Run has set, and Run has returned only if a read
\* failed.
C38_EnumerationFailureIsNotFatal ==
    hist.loadErr =>
        /\ toLoad = {} /\ hist.skipped = {}
        /\ (pc = "loaded")
              => (cache = EmptyFn /\ http = "off" /\ ENABLED StartConsumer)
        /\ (pc # "loaded")
              => (http = "serving" /\ (Running \/ pc = "stopped"))
        /\ (pc = "stopped") => hist.readFailed
        /\ DOMAIN cache = {heap[a].uid : a \in hist.setByRun}

\* C38 witness: the enumeration failed on a store that holds an order; Run
\* has since processed a message and the server serves from a cache that
\* does not have the stored order.
C38_Witness ==
    /\ hist.loadErr
    /\ pc = "read"
    /\ http = "serving"
    /\ hist.setByRun # {}
    /\ \E u \in DOMAIN store.orders : u \notin DOMAIN cache

\* C39: no step of Set, LoadFromDB, Get or GetAll removes a key of the map,
\* and an order_uid for which Get returns an order has one returned after
\* every step.
C39_CacheKeysOnlyGrow ==
    [][ /\ DOMAIN cache \subseteq DOMAIN cache'
        /\ \A u \in UIDs : (Get(u) # <<>>) => (Get(u)' # <<>>) ]_vars

\* C39 witness: the map holds two keys, one inserted by LoadFromDB and one
\* put by Set, after Get and GetAll calls have returned.
C39_Witness ==
    /\ Cardinality(DOMAIN cache) = 2
    /\ \E u \in DOMAIN cache : cache[u] \in hist.durable
    /\ \E u \in DOMAIN cache : cache[u] \in DOMAIN SetterObjects
    /\ \E r1, r2 \in Readers :
          /\ th[r1].resp # <<>> /\ th[r1].resp[1] = 200
          /\ th[r2].res # <<>>

\* C40: when Run is about to read a message its buffer holds fewer orders
\* than the threshold; the step in which SaveBatch hands its result back to
\* Run, nil or an error, leaves the buffer empty, and the buffer is empty
\* from there to the next read; a message that fails to decode leaves the
\* buffer as it is; the buffer never holds more orders than the threshold.
C40_BatchBufferInvariant ==
    /\ []((pc = "read") => (Len(orders) < threshold))
    /\ [](Len(orders) <= threshold)
    /\ []((pc = "set" /\ cur \notin Range(orders)) => (orders = <<>>))
    /\ [][ /\ (pc = "ret" /\ pc' # "ret") => (orders' = <<>>)
           /\ (hist'.bad = hist.bad + 1) => (orders' = orders /\ pc' = pc)
           /\ (pc = "read" /\ Len(orders') > Len(orders))
                 => (Len(orders') = Len(orders) + 1
                     /\ hist'.decoded # hist.decoded) ]_vars

\* C40 witness: with batchSize = 1, a message that failed to decode has
\* been read after a SaveBatch call that failed, and the buffer is empty.
C40_Witness ==
    /\ AsBuilt
    /\ pc = "read"
    /\ hist.bad > 0
    /\ hist.failed # {}
    /\ hist.failed \subseteq hist.setByRun
    /\ orders = <<>>

====
